---- MODULE Spec2Model ----
(***************************************************************************)
(* Model of simulation.py: simulation() seeds the process-wide generator,  *)
(* builds an SERModel, runs it on a connectome and remaps the engine's     *)
(* refractory marker -1 to 2.                                              *)
(*                                                                         *)
(* SERModel lives in model.py, which simulation.py imports; its behaviour  *)
(* (validation, initial snapshot, transition rule, step loop) is modelled  *)
(* from the engine's description.                                          *)
(*                                                                         *)
(* Numbers: probabilities are integers in units of 1/PDen (PDen = 1.0);    *)
(* weights and thresholds are integers in units of 1/2 (2 = 1.0).          *)
(* Nodes are numbered 1..N here (node k of the text is node k+1).          *)
(* A snapshot is a sequence over the nodes with 0 = Quiescent,             *)
(* 1 = Excited, -1 = Refractory (engine marker); the returned matrix holds *)
(* 2 for Refractory.                                                       *)
(***************************************************************************)
EXTENDS Integers, Sequences, FiniteSets, TLC

\* ---------------------------------------------------------------- bounds
MaxSteps == 5
MaxTransient == 2
MaxSeed == 2
PDen == 4
MaxExisting == 2

\* ------------------------------------------------------- input universes
Half == PDen \div 2

\* probabilities: below 0, 0, 0.5, 1, above 1
ProbValues == {-1, 0, Half, PDen, PDen + 1}

\* prop_active: every multiple of 1/PDen in [0,1], and one value either side
PropValues == (-1)..(PDen + 1)

\* thresholds 0.5 and 1.0
TValues == {1, 2}

ZeroConn == << <<0, 0, 0>>, <<0, 0, 0>> , <<0, 0, 0>> >>

\* conn[i][j] is the weight of the edge from node j into node i
ChainConn == << <<0, 0, 0>>, <<2, 0, 0>>, <<0, 2, 0>> >>

\* two nodes, a self-loop on the first, weights 0.5 and 1.0
PairConn == << <<1, 2>>, <<2, 0>> >>

\* three nodes, every node fed by the two others with weight 0.5
DenseConn == << <<0, 1, 1>>, <<1, 0, 1>>, <<1, 1, 0>> >>

NonSquareConn == << <<0, 2, 0>>, <<2, 0, 0>> >>

Connectomes == {ZeroConn, ChainConn, PairConn, DenseConn, NonSquareConn}

\* ------------------------------------------------------- state encoding
Quiescent == 0
Excited == 1

\* the engine's marker and the value simulation() returns for Refractory
RefractoryMarker == -1
Refractory == 2

\* ------------------------------------------------- the numpy generator
\* state space of the generator (a full-period linear congruential one)
RngMod == 64

RngNext(x) == (13 * x + 7) % RngMod

\* one uniform draw in [0,1), in units of 1/PDen, read off generator state x
Uniform(x) == (x \div 4) % PDen

\* random_sample() < p
Bernoulli(x, p) == Uniform(x) < p

\* generator state left by np.random.seed(seed)
SeedState(seed) == (seed * 21 + 5) % RngMod

\* states the process-wide generator can be in before it is seeded
UnseededStates == {0, 9}

RECURSIVE RngAdvance(_, _)
RngAdvance(x, k) == IF k = 0 THEN x ELSE RngAdvance(RngNext(x), k - 1)

\* ------------------------------------------------------------ SERModel
\* slips in the keyword arguments: n_therm not passed on
SERModelArgsNoTransient(n_steps, n_therm, ri, rf, prop_active, T) ==
    [ n_steps        |-> n_steps,
      n_transient    |-> 0,
      prob_spont_act |-> ri,
      prob_recovery  |-> rf,
      prop_e         |-> prop_active,
      threshold      |-> T ]

\* n_steps and n_therm exchanged
SERModelArgsSwappedSteps(n_steps, n_therm, ri, rf, prop_active, T) ==
    [ n_steps        |-> n_therm,
      n_transient    |-> n_steps,
      prob_spont_act |-> ri,
      prob_recovery  |-> rf,
      prop_e         |-> prop_active,
      threshold      |-> T ]

\* n_steps taken to be the number of recorded steps
SERModelArgsRecordedSteps(n_steps, n_therm, ri, rf, prop_active, T) ==
    [ n_steps        |-> n_steps - n_therm,
      n_transient    |-> n_therm,
      prob_spont_act |-> ri,
      prob_recovery  |-> rf,
      prop_e         |-> prop_active,
      threshold      |-> T ]

\* ri and rf exchanged
SERModelArgsSwappedRates(n_steps, n_therm, ri, rf, prop_active, T) ==
    [ n_steps        |-> n_steps,
      n_transient    |-> n_therm,
      prob_spont_act |-> rf,
      prob_recovery  |-> ri,
      prop_e         |-> prop_active,
      threshold      |-> T ]

\* rf passed as the spontaneous activation probability too
SERModelArgsSpontFromRf(n_steps, n_therm, ri, rf, prop_active, T) ==
    [ n_steps        |-> n_steps,
      n_transient    |-> n_therm,
      prob_spont_act |-> rf,
      prob_recovery  |-> rf,
      prop_e         |-> prop_active,
      threshold      |-> T ]

\* ri and T exchanged
SERModelArgsSwappedThreshold(n_steps, n_therm, ri, rf, prop_active, T) ==
    [ n_steps        |-> n_steps,
      n_transient    |-> n_therm,
      prob_spont_act |-> T,
      prob_recovery  |-> rf,
      prop_e         |-> prop_active,
      threshold      |-> ri ]

\* ri passed as the initially active fraction
SERModelArgsPropFromRi(n_steps, n_therm, ri, rf, prop_active, T) ==
    [ n_steps        |-> n_steps,
      n_transient    |-> n_therm,
      prob_spont_act |-> ri,
      prob_recovery  |-> rf,
      prop_e         |-> ri,
      threshold      |-> T ]

\* prop_active passed as the spontaneous activation probability
SERModelArgsSpontFromProp(n_steps, n_therm, ri, rf, prop_active, T) ==
    [ n_steps        |-> n_steps,
      n_transient    |-> n_therm,
      prob_spont_act |-> prop_active,
      prob_recovery  |-> rf,
      prop_e         |-> prop_active,
      threshold      |-> T ]

\* keyword arguments simulation() passes to SERModel(...)
SERModelArgs(n_steps, n_therm, ri, rf, prop_active, T) ==
    [ n_steps        |-> n_steps,
      n_transient    |-> n_therm,
      prob_spont_act |-> ri,
      prob_recovery  |-> rf,
      prop_e         |-> prop_active,
      threshold      |-> T ]

IsProbability(p) == 0 <= p /\ p <= PDen

ParamsValid(m) ==
    /\ m.n_transient < m.n_steps
    /\ IsProbability(m.prob_spont_act)
    /\ IsProbability(m.prob_recovery)
    /\ IsProbability(m.prop_e)

IsSquare(adj) == \A i \in 1..Len(adj) : Len(adj[i]) = Len(adj)

\* round(p * n), halves to the even neighbour, p in units of 1/PDen
Round(p, n) ==
    LET q == (p * n) \div PDen
        r == (p * n) % PDen
    IN  IF 2 * r < PDen THEN q
        ELSE IF 2 * r > PDen THEN q + 1
        ELSE IF q % 2 = 0 THEN q ELSE q + 1

RemoveAt(s, i) == SubSeq(s, 1, i - 1) \o SubSeq(s, i + 1, Len(s))

\* draw k nodes without replacement from pool, one generator step per node;
\* returns the chosen set and the generator state afterwards
RECURSIVE Choose(_, _, _, _)
Choose(pool, k, x, chosen) ==
    IF k = 0 \/ pool = << >> THEN [chosen |-> chosen, rng |-> x]
    ELSE LET y == RngNext(x)
             i == ((y \div 4) % Len(pool)) + 1
         IN  Choose(RemoveAt(pool, i), k - 1, y, chosen \cup {pool[i]})

Initialize(n, prop_e, x) ==
    LET c == Choose([i \in 1..n |-> i], Round(prop_e, n), x, {})
    IN  [ snapshot |-> [i \in 1..n |-> IF i \in c.chosen THEN Excited ELSE Quiescent],
          rng      |-> c.rng ]

RECURSIVE SumTo(_, _, _)
SumTo(row, snap, j) ==
    IF j = 0 THEN 0
    ELSE SumTo(row, snap, j - 1) + (IF snap[j] = Excited THEN row[j] ELSE 0)

\* weighted input of node i from the nodes Excited in snap
Input(adj, snap, i) == SumTo(adj[i], snap, Len(snap))

\* next state of node i, x the generator state of this node's draw
NodeNext(m, adj, snap, i, x) ==
    IF snap[i] = Excited THEN RefractoryMarker
    ELSE IF snap[i] = RefractoryMarker
         THEN (IF Bernoulli(x, m.prob_recovery) THEN Quiescent ELSE RefractoryMarker)
    ELSE IF Bernoulli(x, m.prob_spont_act) \/ Input(adj, snap, i) > m.threshold
         THEN Excited
    ELSE Quiescent

\* Snapshot(t+1) from Snapshot(t): node i uses the i-th draw after x
Transition(m, adj, snap, x) ==
    [i \in 1..Len(snap) |-> NodeNext(m, adj, snap, i, RngAdvance(x, i))]

\* ----------------------------------------------------------- simulation
\* slips in the remapping: the marker sent to 0, and no remapping at all
RemapToQuiescent(mat) ==
    [r \in 1..Len(mat) |->
        [i \in 1..Len(mat[r]) |-> IF mat[r][i] = RefractoryMarker THEN Quiescent ELSE mat[r][i]]]

\* the marker sent to 1
RemapToExcited(mat) ==
    [r \in 1..Len(mat) |->
        [i \in 1..Len(mat[r]) |-> IF mat[r][i] = RefractoryMarker THEN Excited ELSE mat[r][i]]]

RemapSkipped(mat) == mat

\* activation_matrix[activation_matrix == -1] = 2
Remap(mat) ==
    [r \in 1..Len(mat) |->
        [i \in 1..Len(mat[r]) |-> IF mat[r][i] = RefractoryMarker THEN Refractory ELSE mat[r][i]]]

\* ------------------------------------------------------ paths and files
\* A path is a sequence of pieces: a directory piece followed by "/", a name,
\* an extension, the pieces "_" and the digits of a postfix. Joining strings
\* is joining sequences.
DriverProcs == {1, 2}

Extensions == {".d"}

\* run_name values of the configuration file
RunNames == { <<"run">>, <<"run", ".d">>, <<"out", "/", "run">> }

\* os.path.split(fn)
PathSplit(fn) ==
    IF Len(fn) >= 2 /\ fn[2] = "/"
    THEN [head |-> <<fn[1]>>, tail |-> SubSeq(fn, 3, Len(fn))]
    ELSE [head |-> << >>, tail |-> fn]

\* os.path.join(path, name)
PathJoin(path, name) == IF path = << >> THEN name ELSE path \o <<"/">> \o name

\* os.path.splitext(name)
SplitExt(name) ==
    IF Len(name) >= 2 /\ name[Len(name)] \in Extensions
    THEN [root |-> SubSeq(name, 1, Len(name) - 1), ext |-> <<name[Len(name)]>>]
    ELSE [root |-> name, ext |-> << >>]

\* "_" + str(i)
PostfixOf(i) == <<"_", ToString(i)>>

\* slip in the format string: the index put after the extension
make_fn_appended(fn, i) ==
    LET sp == PathSplit(fn)
        se == SplitExt(sp.tail)
    IN  PathJoin(sp.head, se.root \o se.ext \o <<"_", ToString(i)>>)

\* make_fn(i): os.path.join(path, "{}_{}{}".format(name, i, ext))
make_fn(fn, i) ==
    LET sp == PathSplit(fn)
        se == SplitExt(sp.tail)
    IN  PathJoin(sp.head, se.root \o <<"_", ToString(i)>> \o se.ext)

\* os.makedirs(path, exist_ok=True) never raises for an existing path
MakedirsExistOk(path, files) == FALSE

\* os.makedirs(path, exist_ok=False) raises when path exists
MakedirsRaises(path, files) == path \in files

\* indices the loop of determine_unique_postfix can reach: the numbered paths
\* that exist beforehand and one more per driver process
MaxPostfix == MaxExisting + Cardinality(DriverProcs)

\* paths that may exist before the drivers start
Candidates(fn) ==
    {fn} \cup {make_fn(fn, i) : i \in 1..MaxExisting}
         \cup {fn \o PostfixOf(i) : i \in 1..MaxExisting}

VARIABLES
    args,       \* the arguments of simulation(), the same for both calls
    call,       \* 1 or 2: which of the two calls of simulation() is running
    pc,         \* position in simulation()
    rng,        \* state of the process-wide numpy generator
    model,      \* the SERModel instance
    cur,        \* the engine's current snapshot
    t,          \* step-loop iterations completed
    hist,       \* every snapshot the engine has produced, step 0 first
    actmat,     \* rows recorded by the engine (refractory = -1)
    result,     \* matrix returned by simulation()
    seedings,   \* calls of np.random.seed in the current call
    first,      \* outcome of the first call
    run_name,   \* run_name of the configuration file, the same for the drivers
    pre,        \* paths that existed before the drivers started
    fs,         \* paths that exist
    dpc,        \* position of each driver process
    idx,        \* i of each process in determine_unique_postfix
    checked,    \* path whose absence made determine_unique_postfix return
    postfix,    \* postfix of each process
    run_dir,    \* run_name of each process after the postfix is appended
    created,    \* <<process, directory>>: the process created the directory
    written     \* <<process, directory, file>>: the process wrote the file

simvars == <<args, call, pc, rng, model, cur, t, hist, actmat, result, seedings, first>>

drivervars == <<run_name, pre, fs, dpc, idx, checked, postfix, run_dir, created, written>>

vars == <<simvars, drivervars>>

NoModel == SERModelArgs(0, 0, 0, 0, 0, 0)

\* simulation() has been called and has not run a line yet
SimStart ==
    /\ call = 1
    /\ pc = "start"
    /\ model = NoModel
    /\ cur = << >>
    /\ t = 0
    /\ hist = << >>
    /\ actmat = << >>
    /\ result = << >>
    /\ seedings = 0
    /\ first = [pc |-> "none", result |-> << >>, hist |-> << >>]

\* two drivers have set up their run directories: the first found run_name
\* free, the second took the postfix _1
DriversDone ==
    /\ run_name = <<"run">>
    /\ pre = {}
    /\ fs = {<<"run">>, <<"run">> \o PostfixOf(1)}
    /\ dpc = [p \in DriverProcs |-> "done"]
    /\ idx = [p \in DriverProcs |-> p - 1]
    /\ postfix = [p \in DriverProcs |-> IF p = 1 THEN << >> ELSE PostfixOf(1)]
    /\ checked = [p \in DriverProcs |-> <<"run">> \o postfix[p]]
    /\ run_dir = [p \in DriverProcs |-> <<"run">> \o postfix[p]]
    /\ created = {<<p, run_dir[p]>> : p \in DriverProcs}
    /\ written = {<<p, run_dir[p], f>> : p \in DriverProcs, f \in {"connectome", "config_file.ini"}}

Init ==
    /\ args \in [ n_steps     : 1..MaxSteps,
                  n_therm     : 0..MaxTransient,
                  ri          : ProbValues,
                  rf          : ProbValues,
                  prop_active : PropValues,
                  T           : TValues,
                  conn_matrix : Connectomes,
                  seed        : 0..MaxSeed ]
    /\ rng \in UnseededStates
    /\ SimStart
    /\ DriversDone

\* simulation() without its np.random.seed(seed)
SeedSkipped ==
    /\ pc = "start"
    /\ seedings' = seedings + 1
    /\ pc' = "seeded"
    /\ UNCHANGED <<args, call, rng, model, cur, t, hist, actmat, result, first>>
    /\ UNCHANGED drivervars

\* np.random.seed(seed)
Seed ==
    /\ pc = "start"
    /\ rng' = SeedState(args.seed)
    /\ seedings' = seedings + 1
    /\ pc' = "seeded"
    /\ UNCHANGED <<args, call, model, cur, t, hist, actmat, result, first>>
    /\ UNCHANGED drivervars

\* model = SERModel(...): rejects malformed parameters
Construct ==
    /\ pc = "seeded"
    /\ LET m == SERModelArgs(args.n_steps, args.n_therm, args.ri, args.rf,
                             args.prop_active, args.T)
       IN  /\ model' = m
           /\ pc' = IF ParamsValid(m) THEN "constructed" ELSE "error"
    /\ UNCHANGED <<args, call, rng, cur, t, hist, actmat, result, seedings, first>>
    /\ UNCHANGED drivervars

\* model.simulate(adj_mat=conn_matrix), up to the first loop iteration
SimulateInit ==
    /\ pc = "constructed"
    /\ IF IsSquare(args.conn_matrix)
       THEN LET s == Initialize(Len(args.conn_matrix), model.prop_e, rng)
            IN  /\ cur' = s.snapshot
                /\ rng' = s.rng
                /\ hist' = <<s.snapshot>>
                /\ pc' = "loop"
       ELSE /\ pc' = "error"
            /\ UNCHANGED <<cur, rng, hist>>
    /\ UNCHANGED <<args, call, model, t, actmat, result, seedings, first>>
    /\ UNCHANGED drivervars

\* one iteration of the step loop: record step t, compute step t+1
EngineStep ==
    /\ pc = "loop"
    /\ t < model.n_steps
    /\ actmat' = IF t >= model.n_transient THEN Append(actmat, cur) ELSE actmat
    /\ cur' = Transition(model, args.conn_matrix, cur, rng)
    /\ rng' = RngAdvance(rng, Len(cur))
    /\ hist' = Append(hist, cur')
    /\ t' = t + 1
    /\ UNCHANGED <<args, call, pc, model, result, seedings, first>>
    /\ UNCHANGED drivervars

\* simulate() returns; simulation() remaps the refractory marker and returns
Return ==
    /\ pc = "loop"
    /\ t = model.n_steps
    /\ result' = Remap(actmat)
    /\ pc' = "done"
    /\ UNCHANGED <<args, call, rng, model, cur, t, hist, actmat, seedings, first>>
    /\ UNCHANGED drivervars

\* the caller calls simulation() again with the same arguments
SecondCall ==
    /\ pc \in {"done", "error"}
    /\ call = 1
    /\ first' = [pc |-> pc, result |-> result, hist |-> hist]
    /\ call' = 2
    /\ pc' = "start"
    /\ model' = NoModel
    /\ cur' = << >>
    /\ t' = 0
    /\ hist' = << >>
    /\ actmat' = << >>
    /\ result' = << >>
    /\ seedings' = 0
    /\ UNCHANGED <<args, rng>>
    /\ UNCHANGED drivervars

Next ==
    \/ Seed
    \/ Construct
    \/ SimulateInit
    \/ EngineStep
    \/ Return
    \/ SecondCall

Spec == Init /\ [][Next]_vars

TypeOK ==
    /\ call \in {1, 2}
    /\ pc \in {"start", "seeded", "constructed", "loop", "done", "error"}
    /\ rng \in 0..(RngMod - 1)
    /\ t \in 0..MaxSteps

\* ------------------------------------------------ vocabulary of the claims
NumNodes == Len(args.conn_matrix)

\* the arguments satisfy n_transient < n_steps, square, probabilities in [0,1]
ArgsValid ==
    /\ args.n_therm < args.n_steps
    /\ IsSquare(args.conn_matrix)
    /\ IsProbability(args.ri)
    /\ IsProbability(args.rf)
    /\ IsProbability(args.prop_active)

\* hist[s] is the snapshot of step s-1; steps 0 .. n_steps-1 are the run's
StepsOfRun == 1..(IF Len(hist) < args.n_steps THEN Len(hist) ELSE args.n_steps)

\* C1: a node Excited at step t is Refractory at step t+1 (t+1 < n_steps),
\* in the engine's snapshots and in consecutive rows of the returned matrix.
ExcitedDecay ==
    /\ \A s \in StepsOfRun : \A i \in 1..NumNodes :
          (s + 1 \in StepsOfRun /\ hist[s][i] = Excited)
              => hist[s + 1][i] = RefractoryMarker
    /\ \A r \in 1..Len(result) : \A i \in 1..NumNodes :
          (r + 1 <= Len(result) /\ result[r][i] = Excited)
              => result[r + 1][i] = Refractory

ExcitedDecayWitness ==
    /\ pc = "done"
    /\ args.ri = Half
    /\ \E r \in 1..Len(result) : \E i \in 1..NumNodes :
          /\ r + 1 <= Len(result)
          /\ result[r][i] = Excited
          /\ result[r + 1][i] = Refractory

\* C2: every cell of the returned matrix is 0, 1 or 2; a cell the engine
\* left at -1 is returned as 2 and a cell holding 0 or 1 is returned as is.
ReturnedValues ==
    pc = "done" =>
        /\ Len(result) = Len(actmat)
        /\ \A r \in 1..Len(result) :
              /\ Len(result[r]) = Len(actmat[r])
              /\ \A i \in 1..Len(result[r]) :
                    /\ result[r][i] \in {Quiescent, Excited, Refractory}
                    /\ actmat[r][i] = RefractoryMarker => result[r][i] = Refractory
                    /\ actmat[r][i] \in {Quiescent, Excited}
                          => result[r][i] = actmat[r][i]

ReturnedValuesWitness ==
    /\ pc = "done"
    /\ \E r \in 1..Len(result) :
          /\ \E i \in 1..NumNodes : actmat[r][i] = RefractoryMarker /\ result[r][i] = Refractory
          /\ \E i \in 1..NumNodes : actmat[r][i] = Excited /\ result[r][i] = Excited
          /\ \E i \in 1..NumNodes : actmat[r][i] = Quiescent /\ result[r][i] = Quiescent

\* value under which the returned matrix shows an engine state
Shown(v) == IF v = RefractoryMarker THEN Refractory ELSE v

\* C3: the returned matrix has n_steps - n_transient rows of N columns, row r
\* being the snapshot of step n_transient + r - 1; while the loop runs, the
\* rows recorded so far are those of the steps from n_transient on only.
OutputShape ==
    /\ pc = "loop" =>
          Len(actmat) = (IF t > args.n_therm THEN t - args.n_therm ELSE 0)
    /\ pc = "done" =>
          /\ Len(result) = args.n_steps - args.n_therm
          /\ \A r \in 1..Len(result) :
                /\ Len(result[r]) = NumNodes
                /\ \A i \in 1..NumNodes :
                      result[r][i] = Shown(hist[args.n_therm + r][i])

OutputShapeWitness ==
    /\ pc = "done"
    /\ args.n_therm >= 2
    /\ Len(result) >= 2
    /\ hist[1] # hist[args.n_therm + 1]
    /\ \A r \in 1..Len(result) : result[r] # [i \in 1..NumNodes |-> Shown(hist[1][i])]

\* C4: the second call of simulation() with the same arguments returns the
\* matrix the first call returned (and went through the same snapshots), and
\* each call seeds the generator exactly once, before anything else.
Determinism ==
    /\ pc # "start" => seedings = 1
    /\ pc = "start" => seedings = 0
    /\ (call = 2 /\ pc \in {"done", "error"}) => first.pc = pc
    /\ (call = 2 /\ pc = "done") =>
          /\ result = first.result
          /\ hist = first.hist

DeterminismWitness ==
    /\ call = 2
    /\ pc = "done"
    /\ args.ri = Half
    /\ args.rf = Half
    /\ Len(result) >= 3
    /\ result = first.result
    /\ \E r \in 1..Len(result) : \E i \in 1..NumNodes : result[r][i] = Refractory
    /\ rng # SeedState(args.seed)

\* C5: with n_transient >= n_steps, a non-square connectome or a probability
\* outside [0,1], the call never enters the step loop and returns nothing:
\* it stops with an error at construction or at the start of simulate().
ConfigurationError ==
    /\ [](~ArgsValid =>
            /\ pc \in {"start", "seeded", "constructed", "error"}
            /\ t = 0
            /\ hist = << >>
            /\ actmat = << >>
            /\ result = << >>)
    /\ [][(~ArgsValid /\ pc = "seeded" /\ ~IsSquare(args.conn_matrix)
              /\ ParamsValid(model'))
            => pc' = "constructed"]_vars
    /\ [][(~ArgsValid /\ pc = "seeded" /\ ~ParamsValid(model')) => pc' = "error"]_vars
    /\ [][(~ArgsValid /\ pc = "constructed") => pc' = "error"]_vars

ConfigurationErrorWitness ==
    /\ pc = "error"
    /\ ~IsSquare(args.conn_matrix)
    /\ args.n_therm < args.n_steps
    /\ IsProbability(args.ri) /\ IsProbability(args.rf) /\ IsProbability(args.prop_active)

\* the chain scenario: weights 1.0 from node 0 to 1 and from 1 to 2, T = 0.5,
\* ri = 0, rf = 1, node 0 the only node Excited at step 0
ChainScenario ==
    /\ args.conn_matrix = ChainConn
    /\ args.T = 1
    /\ args.ri = 0
    /\ args.rf = PDen
    /\ Len(hist) >= 1
    /\ hist[1] = <<Excited, Quiescent, Quiescent>>

ChainTrajectory ==
    << <<Excited, Quiescent, Quiescent>>,
       <<Refractory, Excited, Quiescent>>,
       <<Quiescent, Refractory, Excited>>,
       <<Quiescent, Quiescent, Refractory>>,
       <<Quiescent, Quiescent, Quiescent>> >>

\* C6: in the chain scenario the snapshots of steps 0..4 are E Q Q, R E Q,
\* Q R E, Q Q R, Q Q Q, in the engine and in the rows of the returned matrix.
ChainScenarioTrajectory ==
    ChainScenario =>
        /\ \A s \in StepsOfRun : \A i \in 1..NumNodes :
              s <= Len(ChainTrajectory) => Shown(hist[s][i]) = ChainTrajectory[s][i]
        /\ \A r \in 1..Len(result) :
              args.n_therm + r <= Len(ChainTrajectory)
                  => result[r] = ChainTrajectory[args.n_therm + r]

ChainScenarioWitness ==
    /\ ChainScenario
    /\ pc = "done"
    /\ args.n_therm = 0
    /\ args.n_steps >= Len(ChainTrajectory)
    /\ SubSeq(result, 1, Len(ChainTrajectory)) = ChainTrajectory

CertainRecovery ==
    args.rf = PDen =>
        /\ \A s \in StepsOfRun : \A i \in 1..NumNodes :
              (s + 1 \in StepsOfRun /\ hist[s][i] = RefractoryMarker)
                  => hist[s + 1][i] = Quiescent
        /\ \A r \in 1..Len(result) : \A i \in 1..NumNodes :
              (r + 1 <= Len(result) /\ result[r][i] = Refractory)
                  => result[r + 1][i] = Quiescent

CertainRecoveryWitness ==
    /\ args.rf = PDen
    /\ args.ri = 0
    /\ pc = "done"
    /\ \E r \in 1..Len(result) : \E i \in 1..NumNodes :
          /\ r + 1 <= Len(result)
          /\ result[r][i] = Refractory
          /\ result[r + 1][i] = Quiescent

ExcitedAtStart == {i \in 1..NumNodes : hist[1][i] = Excited}

\* C9: at step 0 exactly round(prop_active * N) nodes are Excited and every
\* other node is Quiescent; with no transient that is the first returned row.
InitialSnapshot ==
    Len(hist) >= 1 =>
        /\ Len(hist[1]) = NumNodes
        /\ Cardinality(ExcitedAtStart) = Round(args.prop_active, NumNodes)
        /\ \A i \in 1..NumNodes : i \notin ExcitedAtStart => hist[1][i] = Quiescent
        /\ (pc = "done" /\ args.n_therm = 0) => result[1] = hist[1]

InitialSnapshotWitness ==
    /\ pc = "done"
    /\ args.n_therm = 0
    /\ NumNodes = 3
    /\ 2 * ((args.prop_active * NumNodes) % PDen) = PDen
    /\ Cardinality({i \in 1..NumNodes : result[1][i] = Excited}) = 2
    /\ args.ri # args.prop_active

AllQuiescent(snap) == \A i \in 1..Len(snap) : snap[i] = Quiescent

\* C10: the call returns only after n_steps iterations of the loop; while
\* fewer have run, the only thing that happens is the next iteration, whatever
\* the snapshot is; and on valid arguments the call does return.
RunsToCompletion ==
    /\ [](pc = "done" => (t = args.n_steps /\ Len(hist) = args.n_steps + 1))
    /\ [][(pc = "loop" /\ t < args.n_steps) => (pc' = "loop" /\ t' = t + 1)]_vars
    /\ [][pc' = "done" => (pc = "loop" /\ t = args.n_steps)]_vars
    /\ \A c \in {1, 2} : (ArgsValid /\ call = c /\ pc = "start") ~> (call = c /\ pc = "done")

RunsToCompletionWitness ==
    /\ pc = "done"
    /\ t = MaxSteps
    /\ \E i \in 1..NumNodes : hist[1][i] = Excited
    /\ \E s \in 1..(t - 2) : AllQuiescent(hist[s]) /\ AllQuiescent(hist[s + 1])

\* simulation() is sequential code: a call that can take a step takes it
FairSpec == Spec /\ WF_vars(Next)

\* sum of the weights row[j] over the source nodes j in S
RECURSIVE WeightOver(_, _)
WeightOver(row, S) ==
    IF S = {} THEN 0
    ELSE LET j == CHOOSE k \in S : TRUE
         IN  row[j] + WeightOver(row, S \ {j})

\* input of node i at the current step: weights of its edges from the nodes
\* Excited in the current snapshot
ExcitedInput(i) ==
    WeightOver(args.conn_matrix[i], {j \in 1..NumNodes : cur[j] = Excited})

\* the spontaneous draw of node i in the current step succeeds
SpontaneousDraw(i) == Uniform(RngAdvance(rng, i)) < args.ri

\* C11: in every loop iteration a node Quiescent at step t is Excited at step
\* t+1 exactly when its spontaneous draw (probability ri) succeeds or its
\* input from the nodes Excited at step t exceeds T, and is Quiescent
\* otherwise; the input is that of Snapshot(t) alone.
ActivationRule ==
    [][(pc = "loop" /\ t < args.n_steps) =>
          \A i \in 1..NumNodes :
              cur[i] = Quiescent =>
                  /\ cur'[i] \in {Quiescent, Excited}
                  /\ cur'[i] = Excited <=> (SpontaneousDraw(i) \/ ExcitedInput(i) > args.T)]_vars

\* a node newly Excited at step t+1 feeds a Quiescent node with more than T,
\* and that node is still Quiescent at step t+1
ActivationRuleWitness ==
    /\ args.ri = 0
    /\ \E s \in 1..Len(hist) : \E i, j \in 1..NumNodes :
          /\ s + 1 <= Len(hist)
          /\ hist[s][i] = Quiescent
          /\ hist[s][j] = Quiescent
          /\ hist[s + 1][j] = Excited
          /\ args.conn_matrix[i][j] > args.T
          /\ hist[s + 1][i] = Quiescent

NodeTransitions ==
    { <<Quiescent, Quiescent>>, <<Quiescent, Excited>>, <<Excited, RefractoryMarker>>,
      <<RefractoryMarker, RefractoryMarker>>, <<RefractoryMarker, Quiescent>> }

\* C12: between consecutive steps a node only goes Q->Q, Q->E, E->R, R->R or
\* R->Q, in the engine's snapshots and in consecutive returned rows.
AllowedTransitions ==
    /\ \A s \in 1..Len(hist) : \A i \in 1..NumNodes :
          s + 1 <= Len(hist) => <<hist[s][i], hist[s + 1][i]>> \in NodeTransitions
    /\ \A r \in 1..Len(result) : \A i \in 1..NumNodes :
          r + 1 <= Len(result) =>
              \E tr \in NodeTransitions :
                  result[r][i] = Shown(tr[1]) /\ result[r + 1][i] = Shown(tr[2])

\* a Refractory node whose input exceeds T stays Refractory, in returned rows
AllowedTransitionsWitness ==
    /\ pc = "done"
    /\ \E r \in 1..Len(result) : \E i \in 1..NumNodes :
          /\ r + 1 <= Len(result)
          /\ result[r][i] = Refractory
          /\ result[r + 1][i] = Refractory
          /\ WeightOver(args.conn_matrix[i],
                        {j \in 1..NumNodes : result[r][j] = Excited}) > args.T

\* ------------------------------------------------------------ the driver
\* Two driver processes started on the same configuration file, each running
\* the directory set-up of the script up to the writing of the config file.
\* Every call of os.path.exists and of os.makedirs is one step.

\* arguments of the call of simulation() that follows the directory set-up
DriverArgs ==
    [ n_steps |-> 1, n_therm |-> 0, ri |-> 0, rf |-> PDen, prop_active |-> 0,
      T |-> 1, conn_matrix |-> ZeroConn, seed |-> 0 ]

DriverInit ==
    /\ args = DriverArgs
    /\ rng = 0
    /\ SimStart
    /\ run_name \in RunNames
    /\ pre \in SUBSET Candidates(run_name)
    /\ fs = pre
    /\ dpc = [p \in DriverProcs |-> "postfix"]
    /\ idx = [p \in DriverProcs |-> 0]
    /\ checked = [p \in DriverProcs |-> << >>]
    /\ postfix = [p \in DriverProcs |-> << >>]
    /\ run_dir = [p \in DriverProcs |-> run_name]
    /\ created = {}
    /\ written = {}

\* determine_unique_postfix(run_name): if not os.path.exists(fn): return ""
CheckFn(p) ==
    /\ dpc[p] = "postfix"
    /\ IF run_name \notin fs
       THEN /\ postfix' = [postfix EXCEPT ![p] = << >>]
            /\ checked' = [checked EXCEPT ![p] = run_name]
            /\ run_dir' = [run_dir EXCEPT ![p] = run_name]
            /\ dpc' = [dpc EXCEPT ![p] = "makedirs"]
            /\ UNCHANGED idx
       ELSE /\ idx' = [idx EXCEPT ![p] = 1]
            /\ dpc' = [dpc EXCEPT ![p] = "loop"]
            /\ UNCHANGED <<postfix, checked, run_dir>>
    /\ UNCHANGED <<run_name, pre, fs, created, written>>
    /\ UNCHANGED simvars

\* one iteration of the for loop; on return the driver appends the postfix
LoopCheck(p) ==
    /\ dpc[p] = "loop"
    /\ idx[p] <= MaxPostfix
    /\ LET uni_fn == make_fn(run_name, idx[p])
       IN  IF uni_fn \notin fs
           THEN /\ postfix' = [postfix EXCEPT ![p] = PostfixOf(idx[p])]
                /\ checked' = [checked EXCEPT ![p] = uni_fn]
                /\ run_dir' = [run_dir EXCEPT ![p] = run_name \o PostfixOf(idx[p])]
                /\ dpc' = [dpc EXCEPT ![p] = "makedirs"]
                /\ UNCHANGED idx
           ELSE /\ idx' = [idx EXCEPT ![p] = idx[p] + 1]
                /\ UNCHANGED <<postfix, checked, run_dir, dpc>>
    /\ UNCHANGED <<run_name, pre, fs, created, written>>
    /\ UNCHANGED simvars

\* os.makedirs(run_name, exist_ok=False)
Makedirs(p) ==
    /\ dpc[p] = "makedirs"
    /\ IF MakedirsRaises(run_dir[p], fs)
       THEN /\ dpc' = [dpc EXCEPT ![p] = "failed"]
            /\ UNCHANGED <<fs, created>>
       ELSE /\ fs' = fs \cup {run_dir[p]}
            /\ created' = created \cup {<<p, run_dir[p]>>}
            /\ dpc' = [dpc EXCEPT ![p] = "copy"]
    /\ UNCHANGED <<run_name, pre, idx, checked, postfix, run_dir, written>>
    /\ UNCHANGED simvars

\* copyfile(connectome_file, os.path.join(run_name, connectome_name))
CopyConnectome(p) ==
    /\ dpc[p] = "copy"
    /\ written' = written \cup {<<p, run_dir[p], "connectome">>}
    /\ dpc' = [dpc EXCEPT ![p] = "write"]
    /\ UNCHANGED <<run_name, pre, fs, idx, checked, postfix, run_dir, created>>
    /\ UNCHANGED simvars

\* with open(os.path.join(run_name, 'config_file.ini'), 'w'): parser.write
WriteConfig(p) ==
    /\ dpc[p] = "write"
    /\ written' = written \cup {<<p, run_dir[p], "config_file.ini">>}
    /\ dpc' = [dpc EXCEPT ![p] = "done"]
    /\ UNCHANGED <<run_name, pre, fs, idx, checked, postfix, run_dir, created>>
    /\ UNCHANGED simvars

DriverNext ==
    \E p \in DriverProcs :
        \/ CheckFn(p)
        \/ LoopCheck(p)
        \/ Makedirs(p)
        \/ CopyConnectome(p)
        \/ WriteConfig(p)

DriverSpec == DriverInit /\ [][DriverNext]_vars

\* C13: no directory is created by two processes or created though it existed
\* beforehand; a process writes only into the directory it created; a process
\* whose directory exists when it calls makedirs fails there, creating and
\* writing nothing, and a failed process has written nothing.
RunDirectories ==
    /\ [](/\ \A c1, c2 \in created : c1[2] = c2[2] => c1[1] = c2[1]
          /\ \A c \in created : c[2] \notin pre
          /\ \A w \in written : <<w[1], w[2]>> \in created
          /\ \A p \in DriverProcs :
                dpc[p] = "failed" => \A w \in written : w[1] # p)
    /\ [][\A p \in DriverProcs :
            (dpc[p] = "makedirs" /\ run_dir[p] \in fs /\ dpc'[p] # "makedirs")
                => (dpc'[p] = "failed" /\ created' = created /\ written' = written)]_vars

\* the race: both processes chose the same free directory, one created it
\* and finished, the other failed at makedirs
RunDirectoriesWitness ==
    \E p, q \in DriverProcs :
        /\ p # q
        /\ run_dir[p] = run_dir[q]
        /\ run_dir[p] \notin pre
        /\ dpc[p] = "done"
        /\ dpc[q] = "failed"
        /\ <<p, run_dir[p], "config_file.ini">> \in written

\* determine_unique_postfix has returned in process p
PostfixReturned(p) == dpc[p] \in {"makedirs", "copy", "write", "done", "failed"}

HasExtension(fn) == SplitExt(PathSplit(fn).tail).ext # << >>

\* fn with "_i" put between its name and its extension
Numbered(fn, i) ==
    IF HasExtension(fn)
    THEN SubSeq(fn, 1, Len(fn) - 1) \o PostfixOf(i) \o <<fn[Len(fn)]>>
    ELSE fn \o PostfixOf(i)

\* what determine_unique_postfix returned in process p: "" with fn the path
\* found absent, or "_i" with the numbered paths below i present, the i-th the
\* path found absent and fn present; the directory is run_name + postfix
PostfixResult(p) ==
    /\ postfix[p] = << >> => checked[p] = run_name
    /\ postfix[p] # << >> =>
          /\ run_name \in fs
          /\ \E i \in 1..MaxPostfix :
                /\ postfix[p] = PostfixOf(i)
                /\ checked[p] = Numbered(run_name, i)
                /\ \A j \in 1..(i - 1) : Numbered(run_name, j) \in fs
    /\ run_dir[p] = run_name \o postfix[p]
    /\ ~HasExtension(run_name) => checked[p] = run_dir[p]

\* the step on which determine_unique_postfix returns: the path it checked
\* last is absent, and it returns "" exactly when fn is absent
PostfixReturnStep ==
    \A p \in DriverProcs :
        (~PostfixReturned(p) /\ PostfixReturned(p)') =>
            /\ checked'[p] \notin fs
            /\ postfix'[p] = << >> <=> run_name \notin fs

\* C14 as stated, for the state determine_unique_postfix leaves: its result as
\* above, and for a run_name with an extension the path checked and the
\* directory differ.
UniquePostfixAsStated ==
    \A p \in DriverProcs : PostfixReturned(p) =>
        /\ PostfixResult(p)
        /\ HasExtension(run_name) => checked[p] # run_dir[p]

\* C14: determine_unique_postfix returns "" exactly when fn is absent, else
\* "_i" for the smallest i >= 1 whose numbered path is absent; the directory is
\* run_name + postfix, which for a run_name with an extension differs from the
\* path checked whenever the postfix is not empty, and for a run_name without
\* one is the path checked, absent when checked.
UniquePostfix ==
    /\ [](\A p \in DriverProcs : PostfixReturned(p) =>
            /\ PostfixResult(p)
            /\ (HasExtension(run_name) /\ postfix[p] # << >>) => checked[p] # run_dir[p]
            /\ (HasExtension(run_name) /\ postfix[p] = << >>) => checked[p] = run_dir[p])
    /\ [][PostfixReturnStep]_vars

\* a run_name with an extension, the second numbered path taken, and the
\* directory created though it is not the path that was checked
UniquePostfixWitness ==
    \E p \in DriverProcs :
        /\ HasExtension(run_name)
        /\ dpc[p] = "done"
        /\ postfix[p] = PostfixOf(2)
        /\ checked[p] = make_fn(run_name, 2)
        /\ checked[p] # run_dir[p]
        /\ checked[p] \notin fs
        /\ <<p, run_dir[p]>> \in created

====
